---------------------------- MODULE Spec2Model ----------------------------
(***************************************************************************)
(* Model of the BananaClan catalogue backend: the Express controllers of   *)
(* the product endpoints, ProductService (product detail, the five listing *)
(* orchestrators and the multi-brand fan-out) and the external store the   *)
(* service queries through the supabase client.                            *)
(*                                                                         *)
(* One HTTP request (or one direct service call) is in flight at a time.   *)
(* Every `await` of the source is one step of the model: a query reads the *)
(* store when it completes, and the store's owner may change the store     *)
(* between any two steps.                                                  *)
(***************************************************************************)
EXTENDS Integers, Sequences, FiniteSets, TLC

(***************************************************************************)
(* Bounds of the model.                                                    *)
(***************************************************************************)
MaxProducts == 4        \* product rows the store may hold
MaxBrands == 2          \* longest brand list handed to getTopSellingProducts

(***************************************************************************)
(* Text.  A string the code inspects character by character (a query       *)
(* parameter, a brand token, a brand name) is a sequence of one-character  *)
(* strings.                                                                *)
(***************************************************************************)
Digits == <<"0", "1", "2", "3", "4", "5", "6", "7", "8", "9">>
UpperCase == <<"A", "B", "C", "D", "E", "F", "G", "H", "I", "J", "K", "L", "M",
               "N", "O", "P", "Q", "R", "S", "T", "U", "V", "W", "X", "Y", "Z">>
LowerCase == <<"a", "b", "c", "d", "e", "f", "g", "h", "i", "j", "k", "l", "m",
               "n", "o", "p", "q", "r", "s", "t", "u", "v", "w", "x", "y", "z">>

Range(s) == {s[i] : i \in DOMAIN s}

IsDigit(c) == c \in Range(Digits)

DigitVal(c) == (CHOOSE i \in DOMAIN Digits : Digits[i] = c) - 1

ToLower(c) ==
    IF c \in Range(UpperCase)
    THEN LowerCase[CHOOSE i \in DOMAIN UpperCase : UpperCase[i] = c]
    ELSE c

\* [0-9a-f] under the /i flag
IsHex(c) == IsDigit(c) \/ ToLower(c) \in {"a", "b", "c", "d", "e", "f"}

(***************************************************************************)
(* parseInt(string): optional sign, then the longest run of decimal        *)
(* digits; NaN when there is no digit.  An absent query parameter is       *)
(* undefined, and parseInt(undefined) is NaN.                              *)
(***************************************************************************)
NaN == [nan |-> TRUE, val |-> 0]

RECURSIVE DigitRun(_, _)
DigitRun(s, acc) ==
    IF s = <<>> \/ ~IsDigit(Head(s)) THEN acc
    ELSE DigitRun(Tail(s), 10 * acc + DigitVal(Head(s)))

parseInt(raw) ==
    IF ~raw.present THEN NaN
    ELSE LET s == raw.chars
             neg == s # <<>> /\ Head(s) = "-"
             body == IF s # <<>> /\ Head(s) \in {"-", "+"} THEN Tail(s) ELSE s
         IN  IF body = <<>> \/ ~IsDigit(Head(body)) THEN NaN
             ELSE [nan |-> FALSE,
                   val |-> IF neg THEN 0 - DigitRun(body, 0) ELSE DigitRun(body, 0)]

\* parseInt(x) || d : NaN and 0 are falsy
OrDefault(v, d) == IF v.nan \/ v.val = 0 THEN d ELSE v.val

(***************************************************************************)
(* The UUID test of getTopSellingProductsByBrand:                          *)
(* /^[0-9a-f]{8}-[0-9a-f]{4}-[1-5][0-9a-f]{3}-[89ab][0-9a-f]{3}-[0-9a-f]{12}$/i *)
(***************************************************************************)
uuidPatternTest(s) ==
    /\ Len(s) = 36
    /\ \A i \in 1..36 :
          IF i \in {9, 14, 19, 24} THEN s[i] = "-"
          ELSE IF i = 15 THEN s[i] \in {"1", "2", "3", "4", "5"}
          ELSE IF i = 20 THEN ToLower(s[i]) \in {"8", "9", "a", "b"}
          ELSE IsHex(s[i])

(***************************************************************************)
(* ILIKE: case-insensitive match of a pattern in which % stands for any    *)
(* run of characters and _ for any one character.                          *)
(***************************************************************************)
RECURSIVE ilike(_, _)
ilike(name, pattern) ==
    IF pattern = <<>> THEN name = <<>>
    ELSE IF Head(pattern) = "%"
         THEN ilike(name, Tail(pattern))
              \/ (name # <<>> /\ ilike(Tail(name), pattern))
    ELSE /\ name # <<>>
         /\ Head(pattern) = "_" \/ ToLower(Head(pattern)) = ToLower(Head(name))
         /\ ilike(Tail(name), Tail(pattern))

\* Math.floor in place of Math.ceil
MathFloorDiv(a, b) == a \div b

\* Math.ceil(a / b) for a >= 0, b >= 1
MathCeilDiv(a, b) == (a + b - 1) \div b


(***************************************************************************)
(* The brands table and the brand tokens a caller may supply.              *)
(***************************************************************************)
BrandIdNike == "11111111-1111-4111-8111-111111111111"
BrandIdPuma == "22222222-2222-4222-a222-222222222222"
NilUuid == "00000000-0000-0000-0000-000000000000"

Text(t) ==
    CASE t = BrandIdNike -> <<"1", "1", "1", "1", "1", "1", "1", "1", "-", "1", "1", "1", "1", "-", "4", "1", "1", "1", "-", "8", "1", "1", "1", "-", "1", "1", "1", "1", "1", "1", "1", "1", "1", "1", "1", "1">>
      [] t = BrandIdPuma -> <<"2", "2", "2", "2", "2", "2", "2", "2", "-", "2", "2", "2", "2", "-", "4", "2", "2", "2", "-", "a", "2", "2", "2", "-", "2", "2", "2", "2", "2", "2", "2", "2", "2", "2", "2", "2">>
      [] t = NilUuid -> <<"0", "0", "0", "0", "0", "0", "0", "0", "-", "0", "0", "0", "0", "-", "0", "0", "0", "0", "-", "0", "0", "0", "0", "-", "0", "0", "0", "0", "0", "0", "0", "0", "0", "0", "0", "0">>
      [] t = "nike" -> <<"n", "i", "k", "e">>
      [] t = "%" -> <<"%">>

BrandsTable ==
    { [id |-> BrandIdNike, name |-> <<"N", "i", "k", "e">>, logo_url |-> "nike.png"],
      [id |-> BrandIdPuma, name |-> <<"P", "u", "m", "a">>, logo_url |-> "puma.png"] }

\* a name that hits one brand, an id, a UUID-shaped text the pattern rejects
\* (version nibble 0), and a pattern that hits every brand
Tokens == {"nike", BrandIdNike, NilUuid, "%"}

(***************************************************************************)
(* The products table.  A row is identified by a number; the store holds   *)
(* any subset of the rows below.  The columns are spread over the rows so  *)
(* that every filter, every sort order and every shape of a joined         *)
(* relation occurs.  A relation (sellers, brands) arrives as null, as a    *)
(* bare record or as a collection; a text column may be null.              *)
(***************************************************************************)
Products == 1..MaxProducts

NULL == "<null>"

\* a property the object does not have
UNDEFINED == "<undefined>"

is_active(p) == p % 4 # 0

brand_id(p) == IF p % 2 = 1 THEN BrandIdNike ELSE BrandIdPuma

seller_id(p) == IF p <= 2 THEN "seller-1" ELSE "seller-2"

sales_till_date(p) == (3 * p) % 7

created_at(p) == 100 + p

\* position of the row's name in the collation of the name column
name_rank(p) == (2 * p) % 7

name(p) == <<"product", name_rank(p)>>

price(p) == 10 * p

tags(p) ==
    CASE p % 3 = 1 -> [kind |-> "array", items |-> <<"TRENDING">>]
      [] p % 3 = 2 -> [kind |-> "array", items |-> <<"RECOMMENDED", "TRENDING">>]
      [] OTHER -> [kind |-> "null", items |-> <<>>]

images(p) ==
    CASE p % 3 = 1 -> [kind |-> "array", items |-> <<"a.jpg", "b.jpg">>]
      [] p % 3 = 2 -> [kind |-> "array", items |-> <<>>]
      [] OTHER -> [kind |-> "null", items |-> <<>>]

\* embedded sellers(store_name, logo_url)
sellers(p) ==
    LET rec == [store_name |-> IF p = 2 THEN NULL ELSE "Store",
                logo_url |-> IF p = 2 THEN NULL ELSE "store.png"]
    IN  CASE p % 4 = 1 -> [kind |-> "object", items |-> <<rec>>]
          [] p % 4 = 2 -> [kind |-> "array", items |-> <<rec>>]
          [] p % 4 = 3 -> [kind |-> "null", items |-> <<>>]
          [] OTHER -> [kind |-> "array", items |-> <<>>]

\* embedded brands(name, logo_url)
brands(p) ==
    LET rec == [name |-> IF p % 2 = 1 THEN "Nike" ELSE "Puma",
                logo_url |-> IF p = 1 THEN NULL ELSE "brand.png"]
    IN  CASE p % 4 = 1 -> [kind |-> "array", items |-> <<rec>>]
          [] p % 4 = 2 -> [kind |-> "object", items |-> <<rec>>]
          [] p % 4 = 3 -> [kind |-> "array", items |-> <<>>]
          [] OTHER -> [kind |-> "null", items |-> <<>>]

\* ids of the row's colour variants; `of` tells what the elements of a list
\* are
color_variants(p) ==
    CASE p % 3 = 1 -> [kind |-> "array", of |-> "id", items |-> <<p + 1, p + 2>>]
      [] p % 3 = 2 -> [kind |-> "array", of |-> "id", items |-> <<>>]
      [] OTHER -> [kind |-> "null", of |-> "id", items |-> <<>>]

color(p) == IF p % 2 = 1 THEN "red" ELSE "blue"

\* the row as a query with the embedded relations returns it
Row(p) ==
    [id |-> p,
     name |-> name(p),
     brand_id |-> brand_id(p),
     price |-> price(p),
     images |-> images(p),
     seller_id |-> seller_id(p),
     sales_till_date |-> sales_till_date(p),
     created_at |-> created_at(p),
     color |-> color(p),
     color_variants |-> color_variants(p),
     tags |-> tags(p),
     sellers |-> sellers(p),
     brands |-> brands(p)]

Sellers == {"seller-1", "seller-2"}

(***************************************************************************)
(* What the store answers.  A query is evaluated against the rows the      *)
(* store holds when the query completes.                                   *)
(***************************************************************************)
\* the filter of each listing orchestrator's count query and data query
Matches(op, arg, p) ==
    CASE op = "latest" -> is_active(p)
      [] op = "byTag" -> tags(p).kind # "null" /\ arg \in Range(tags(p).items)
      [] op = "bySeller" -> is_active(p) /\ seller_id(p) = arg
      [] op = "overall" -> is_active(p)
      [] op = "byBrand" -> is_active(p) /\ brand_id(p) = arg

\* .order(column, {ascending}): smaller rank first
OrderRank(op, p) ==
    CASE op = "latest" -> 0 - created_at(p)
      [] op = "byTag" -> name_rank(p)
      [] OTHER -> 0 - sales_till_date(p)

RECURSIVE Ordered(_, _)
Ordered(S, op) ==
    IF S = {} THEN <<>>
    ELSE LET first == CHOOSE x \in S : \A y \in S : OrderRank(op, x) <= OrderRank(op, y)
         IN  <<first>> \o Ordered(S \ {first}, op)

\* select('*', {count: 'exact', head: true}) with the orchestrator's filter
CountOf(rows, op, arg) == Cardinality({p \in rows : Matches(op, arg, p)})

\* .range(from, to).order(...): rows from..to (0-based, inclusive) of the
\* ordered matching rows
RangeOf(rows, op, arg, from, to) ==
    LET all == Ordered({p \in rows : Matches(op, arg, p)}, op)
        last == IF to + 1 < Len(all) THEN to + 1 ELSE Len(all)
    IN  SubSeq(all, from + 1, last)

\* from('brands').select('id').ilike('name', token).single(): an error unless
\* exactly one brand matches
\* .limit(1) in place of .single(): one of the matching brands is picked
BrandLookupFirstMatch(token) ==
    LET hits == {b \in BrandsTable : ilike(b.name, Text(token))}
    IN  IF hits # {}
        THEN [error |-> FALSE, id |-> (CHOOSE b \in hits : TRUE).id]
        ELSE [error |-> TRUE, id |-> NULL]

BrandLookup(token) ==
    LET hits == {b \in BrandsTable : ilike(b.name, Text(token))}
    IN  IF Cardinality(hits) = 1
        THEN [error |-> FALSE, id |-> (CHOOSE b \in hits : TRUE).id]
        ELSE [error |-> TRUE, id |-> NULL]

\* the orderings of a set of rows
Orderings(S) ==
    {q \in [1..Cardinality(S) -> S] : \A i, j \in DOMAIN q : i # j => q[i] # q[j]}

\* .in('id', ids) without .order(): the rows of the store among ids, in an
\* order of the store's choosing
VariantRows(rows, ids) == Orderings({p \in rows : p \in Range(ids)})

(***************************************************************************)
(* Row normalisation.                                                      *)
(***************************************************************************)
\* x[0] whatever x is: a bare record has no property 0
FirstOrSelfAlwaysIndex(rel) ==
    IF rel.kind = "array" /\ Len(rel.items) > 0 THEN <<rel.items[1]>> ELSE <<>>

\* Array.isArray(x) ? x[0] : x  -- <<>> stands for null and undefined
FirstOrSelf(rel) ==
    IF rel.kind = "array"
    THEN IF Len(rel.items) > 0 THEN <<rel.items[1]>> ELSE <<>>
    ELSE IF rel.kind = "object" THEN <<rel.items[1]>>
    ELSE <<>>

\* the field passed on as it is, without `|| fallback`
FieldOrNothing(rec, field, fallback) ==
    IF rec = <<>> THEN UNDEFINED ELSE rec[1][field]

\* rec?.field || fallback
FieldOr(rec, field, fallback) ==
    IF rec = <<>> THEN fallback
    ELSE IF rec[1][field] \in {NULL, UNDEFINED, ""} THEN fallback
    ELSE rec[1][field]

\* images && images.length > 0 ? images[0] : '' -- Array.isArray left out
FirstImageOfAnything(imgs) ==
    IF Len(imgs.items) > 0 THEN imgs.items[1] ELSE ""

\* Array.isArray(images) && images.length > 0 ? images[0] : ''
FirstImage(imgs) ==
    IF imgs.kind = "array" /\ Len(imgs.items) > 0 THEN imgs.items[1] ELSE ""

\* the fields every list item carries
SimplifiedBase(item) ==
    LET sellerData == FirstOrSelf(item.sellers)
        brandData == FirstOrSelf(item.brands)
    IN  [id |-> item.id,
         name |-> item.name,
         brand_name |-> FieldOr(brandData, "name", "Unknown Brand"),
         brand_logo |-> FieldOr(brandData, "logo_url", ""),
         seller_id |-> item.seller_id,
         seller_name |-> FieldOr(sellerData, "store_name", "Unknown Seller"),
         seller_logo |-> FieldOr(sellerData, "logo_url", ""),
         image |-> FirstImage(item.images),
         price |-> item.price]

\* data?.map(item => ({...})) of each orchestrator, for one item
Simplified(op, item) ==
    CASE op = "latest" -> SimplifiedBase(item) @@ [created_at |-> item.created_at]
      [] op = "byTag" -> SimplifiedBase(item)
      [] op = "bySeller" ->
            SimplifiedBase(item) @@ [sales_till_date |-> item.sales_till_date,
                                     created_at |-> item.created_at]
      [] OTHER -> SimplifiedBase(item) @@ [sales_till_date |-> item.sales_till_date]

\* data?.map(item => ...) || []
SimplifiedData(op, data) ==
    IF data.null THEN <<>>
    ELSE [i \in DOMAIN data.rows |-> Simplified(op, Row(data.rows[i]))]

\* count || 0
CountOrZero(count) == IF count.null THEN 0 ELSE count.value

\* the envelope every listing orchestrator returns
PaginatedResult(items, count, page, limit) ==
    [data |-> items,
     total |-> CountOrZero(count),
     page |-> page,
     limit |-> limit,
     totalPages |-> MathCeilDiv(CountOrZero(count), limit)]

\* the envelope getTopSellingProductsByBrand returns when the brand lookup
\* reports an error
EmptyResult(page, limit) ==
    [data |-> <<>>, total |-> 0, page |-> page, limit |-> limit, totalPages |-> 0]

(***************************************************************************)
(* State.                                                                  *)
(***************************************************************************)
VARIABLES
    store,      \* the product rows the store holds
    phase,      \* "idle", "awaiting" (a controller awaits the service),
                \* "direct" (the service was called without a controller),
                \* "responded"
    req,        \* the HTTP request in hand: <<>> or <<request>>
    call,       \* the service call in hand: <<>> or <<call>>
    frames,     \* the listing orchestrators running for the call, one per
                \* brand in the fan-out
    detail,     \* getProductById's frame: <<>> or <<frame>>
    results,    \* the results object of getTopSellingProducts
    outcome,    \* how the service call settled: <<>>, <<return>> or <<throw>>
    response,   \* what the controller sent: <<>> or <<response>>
    mapped      \* a row as a query returned it and what the service made of
                \* it: <<>> or <<[op, item, out]>>, out <<>> until mapped

vars == <<store, phase, req, call, frames, detail, results, outcome, response,
          mapped>>

\* the error an upstream query reports
UpstreamError == "PGRST000: connection to 10.0.0.5:5432 refused"

\* .single() without exactly one row
NoRowError == "PGRST116: JSON object requested, multiple (or no) rows returned"

Absent == [present |-> FALSE, chars |-> <<>>]

Supplied(s) == [present |-> TRUE, chars |-> s]

\* the values a page or limit query parameter takes
RawValues ==
    { Absent, Supplied(<<"0">>), Supplied(<<"1">>), Supplied(<<"2">>),
      Supplied(<<"-", "1">>), Supplied(<<"5", "1">>), Supplied(<<"a">>),
      Supplied(<<"2", ".", "5">>) }

NoBrands == [present |-> FALSE, list |-> <<>>]

RECURSIVE SeqsUpTo(_, _)
SeqsUpTo(S, n) ==
    IF n = 0 THEN {<<>>}
    ELSE LET shorter == SeqsUpTo(S, n - 1)
         IN  shorter \cup {Append(s, x) : s \in shorter, x \in S}

\* the brands argument of getTopSellingProducts
BrandArgs == {NoBrands} \cup {[present |-> TRUE, list |-> l] : l \in SeqsUpTo(Tokens, MaxBrands)}

\* page and limit of a direct service call
DirectPages == {1, 2}

DirectLimits == {1, 2}

NoCount == [null |-> TRUE, value |-> 0]

NoData == [null |-> TRUE, rows |-> <<>>]

CountQuery == [table |-> "products", kind |-> "count", from |-> 0, to |-> 0]

LookupQuery == [table |-> "brands", kind |-> "lookup", from |-> 0, to |-> 0]

\* const offset = page * limit
DataQueryFromPageTimesLimit(page, limit) ==
    [table |-> "products", kind |-> "data", from |-> page * limit,
     to |-> page * limit + limit - 1]

\* const offset = (page - 1) * limit; .range(offset, offset + limit - 1)
DataQuery(page, limit) ==
    LET offset == (page - 1) * limit
    IN  [table |-> "products", kind |-> "data", from |-> offset, to |-> offset + limit - 1]

Frame(op, token, arg, page, limit, pc, query) ==
    [op |-> op, token |-> token, arg |-> arg, page |-> page, limit |-> limit,
     pc |-> pc, count |-> NoCount, data |-> NoData, queries |-> <<query>>,
     result |-> <<>>, error |-> ""]

\* a listing orchestrator up to its first await: the count query is out
ListStart(op, arg, page, limit) == Frame(op, "", arg, page, limit, "count", CountQuery)

\* the name lookup issued whatever the token looks like
ByBrandStartAlwaysLookup(brandName, page, limit) ==
    Frame("byBrand", brandName, NULL, page, limit, "lookup", LookupQuery)

\* getTopSellingProductsByBrand up to its first await: a UUID is the brand
\* id and the count query is out, any other token is looked up by name
ByBrandStart(brandName, page, limit) ==
    IF uuidPatternTest(Text(brandName))
    THEN Frame("byBrand", brandName, brandName, page, limit, "count", CountQuery)
    ELSE Frame("byBrand", brandName, NULL, page, limit, "lookup", LookupQuery)

\* a brand lookup error rethrown instead of answered with the empty envelope
LookupOutcomesThrowing(f) ==
    LET answers == {[error |-> TRUE, id |-> NULL], BrandLookup(f.token)}
    IN  { IF a.error
          THEN [f EXCEPT !.pc = "threw", !.error = "brandError"]
          ELSE [f EXCEPT !.pc = "count", !.arg = a.id,
                         !.queries = Append(@, CountQuery)]
          : a \in answers }

\* the brand lookup completes
LookupOutcomes(f) ==
    LET answers == {[error |-> TRUE, id |-> NULL], BrandLookup(f.token)}
    IN  { IF a.error
          THEN [f EXCEPT !.pc = "returned", !.result = <<EmptyResult(f.page, f.limit)>>,
                         !.error = "brandError"]
          ELSE [f EXCEPT !.pc = "count", !.arg = a.id,
                         !.queries = Append(@, CountQuery)]
          : a \in answers }

\* countError logged and not thrown: the data query goes out all the same
CountOutcomesErrorNotThrown(f, rows) ==
    { [f EXCEPT !.pc = "data", !.count = c, !.error = e,
                !.queries = Append(@, DataQuery(f.page, f.limit))]
      : c \in {NoCount, [null |-> FALSE, value |-> CountOf(rows, f.op, f.arg)]},
        e \in {"", UpstreamError} }

\* the count query completes: an error is thrown; otherwise the data query
\* goes out
CountOutcomes(f, rows) ==
    {[f EXCEPT !.pc = "threw", !.error = UpstreamError]}
    \cup
    { [f EXCEPT !.pc = "data", !.count = c,
                !.queries = Append(@, DataQuery(f.page, f.limit))]
      : c \in {NoCount, [null |-> FALSE, value |-> CountOf(rows, f.op, f.arg)]} }

\* the data query completes: an error is thrown; otherwise the rows are
\* normalised and the envelope is returned
DataOutcomes(f, rows) ==
    LET q == f.queries[Len(f.queries)]
    IN  {[f EXCEPT !.pc = "threw", !.error = UpstreamError]}
        \cup
        { [f EXCEPT !.pc = "returned", !.data = d,
                    !.result = <<PaginatedResult(SimplifiedData(f.op, d), f.count,
                                                 f.page, f.limit)>>]
          : d \in {NoData,
                   [null |-> FALSE, rows |-> RangeOf(rows, f.op, f.arg, q.from, q.to)]} }

Returned(value) == <<[kind |-> "return", value |-> value]>>

Threw(error) == <<[kind |-> "throw", error |-> error]>>

\* a listing orchestrator called alone: its result or its error is the call's
SettleOne(f) ==
    CASE f.pc = "returned" -> Returned(f.result[1])
      [] f.pc = "threw" -> Threw(f.error)
      [] OTHER -> <<>>

\* Promise.allSettled in place of Promise.all: a unit's error is dropped
SettleAllSettled(old, f, fs, res) ==
    IF old # <<>> THEN old
    ELSE IF \A j \in DOMAIN fs : fs[j].pc \in {"returned", "threw"} THEN Returned(res)
    ELSE <<>>

\* await Promise.all(brands.map(...)); return results -- the first unit to
\* throw rejects the call, and the mapping is returned once every unit has
\* stored its result
SettleAll(old, f, fs, res) ==
    IF old # <<>> THEN old
    ELSE IF f.pc = "threw" THEN Threw(f.error)
    ELSE IF \A j \in DOMAIN fs : fs[j].pc = "returned" THEN Returned(res)
    ELSE <<>>

\* results[brandName] = brandResult
SetKey(res, key, value) ==
    [k \in DOMAIN res \cup {key} |-> IF k = key THEN value ELSE res[k]]

\* the resolved brand id as the key
ResultKeyBrandId(f) == IF f.arg = NULL THEN f.token ELSE f.arg

\* the key a unit of the fan-out stores its result under: the token it was
\* given
ResultKey(f) == f.token

NoResults == [k \in {} |-> EmptyResult(1, 1)]

Init ==
    /\ store \in SUBSET Products
    /\ phase = "idle"
    /\ req = <<>>
    /\ call = <<>>
    /\ frames = <<>>
    /\ detail = <<>>
    /\ results = NoResults
    /\ outcome = <<>>
    /\ response = <<>>
    /\ mapped = <<>>

(***************************************************************************)
(* The store's owner writes a row or removes one.                          *)
(***************************************************************************)
StoreWrite ==
    /\ \E p \in Products :
          store' = IF p \in store THEN store \ {p} ELSE store \cup {p}
    /\ UNCHANGED <<phase, req, call, frames, detail, results, outcome, response, mapped>>

\* .delete() in place of .select(): the table emptied by the query
AfterDelete(rows) == {}

\* .select(...): a query of the service reads the table and leaves its rows
\* as they are
AfterSelect(rows) == rows

(***************************************************************************)
(* ProductService: the listing orchestrators.                              *)
(***************************************************************************)
\* brands given and not empty: the fan-out
FanOut ==
    /\ call # <<>>
    /\ call[1].method = "getTopSellingProducts"
    /\ call[1].brands.present
    /\ call[1].brands.list # <<>>

StepOutcomes(f, rows) ==
    CASE f.pc = "lookup" -> LookupOutcomes(f)
      [] f.pc = "count" -> CountOutcomes(f, rows)
      [] f.pc = "data" -> DataOutcomes(f, rows)

\* the query the orchestrator op awaits at pc completes
Step(op, pc) ==
    /\ phase \in {"awaiting", "direct"}
    /\ \E i \in DOMAIN frames :
          /\ frames[i].op = op
          /\ frames[i].pc = pc
          /\ \E f \in StepOutcomes(frames[i], store) :
                /\ frames' = [frames EXCEPT ![i] = f]
                /\ IF FanOut
                   THEN /\ results' = IF f.pc = "returned"
                                      THEN SetKey(results, ResultKey(f), f.result[1])
                                      ELSE results
                        /\ outcome' = SettleAll(outcome, f, frames', results')
                   ELSE /\ results' = results
                        /\ outcome' = SettleOne(f)
    /\ store' = AfterSelect(store)
    /\ UNCHANGED <<phase, req, call, detail, response, mapped>>

GetLatestProducts_Count == Step("latest", "count")

GetLatestProducts_Data == Step("latest", "data")

GetProductsByTag_Count == Step("byTag", "count")

GetProductsByTag_Data == Step("byTag", "data")

GetTopSellingProductsBySeller_Count == Step("bySeller", "count")

GetTopSellingProductsBySeller_Data == Step("bySeller", "data")

GetOverallTopSellingProducts_Count == Step("overall", "count")

GetOverallTopSellingProducts_Data == Step("overall", "data")

GetTopSellingProductsByBrand_Lookup == Step("byBrand", "lookup")

GetTopSellingProductsByBrand_Count == Step("byBrand", "count")

GetTopSellingProductsByBrand_Data == Step("byBrand", "data")

\* the test of brands.length left out
NoBrandsGivenAbsentOnly(b) == ~b.present

\* !brands || brands.length === 0
NoBrandsGiven(b) == ~b.present \/ Len(b.list) = 0

\* getTopSellingProducts(page, limit, brands), called with valid page and
\* limit: without brands the overall listing, otherwise one
\* getTopSellingProductsByBrand per token, all started before the first await
GetTopSellingProducts ==
    /\ phase = "idle"
    /\ \E page \in DirectPages, limit \in DirectLimits, b \in BrandArgs :
          /\ call' = <<[method |-> "getTopSellingProducts", page |-> page,
                        limit |-> limit, arg |-> "", brands |-> b]>>
          /\ frames' = IF NoBrandsGiven(b)
                       THEN <<ListStart("overall", "", page, limit)>>
                       ELSE [i \in DOMAIN b.list |-> ByBrandStart(b.list[i], page, limit)]
    /\ phase' = "direct"
    /\ results' = NoResults
    /\ UNCHANGED <<store, req, detail, outcome, response, mapped>>

(***************************************************************************)
(* ProductService.getProductById.                                          *)
(***************************************************************************)
MainQuery == [table |-> "products", kind |-> "single", from |-> 0, to |-> 0]

VariantQuery == [table |-> "products", kind |-> "in", from |-> 0, to |-> 0]

NoVariants == [kind |-> "null", of |-> "ProductVariant", items |-> <<>>]

\* variant => ({id, color, image})
ProductVariant(variant) ==
    [id |-> variant.id, color |-> variant.color, image |-> FirstImage(variant.images)]

\* variantData.map(variant => ({id, color, image}))
ProductVariants(rows) ==
    [kind |-> "array",
     of |-> "ProductVariant",
     items |-> [i \in DOMAIN rows |-> ProductVariant(Row(rows[i]))]]

\* what the follow-up lookup answers: an error, no data, or rows
VariantAnswers(rows, ids) ==
    { [error |-> TRUE, null |-> TRUE, rows |-> <<>>],
      [error |-> FALSE, null |-> TRUE, rows |-> <<>>] }
    \cup {[error |-> FALSE, null |-> FALSE, rows |-> q] : q \in VariantRows(rows, ids)}

\* one entry for every id of the product's list, a placeholder for an id
\* the lookup did not return
VariantsWithPlaceholders(parsedProduct, answer) ==
    IF ~answer.error /\ ~answer.null
    THEN [kind |-> "array",
          of |-> "ProductVariant",
          items |-> [i \in DOMAIN parsedProduct.color_variants.items |->
                       LET id == parsedProduct.color_variants.items[i]
                       IN  IF id \in Range(answer.rows)
                           THEN ProductVariant(Row(id))
                           ELSE [id |-> id, color |-> NULL, image |-> ""]]]
    ELSE NoVariants

\* if (!variantError && variantData) variants = variantData.map(...);
\* otherwise variants stays null
Variants(parsedProduct, answer) ==
    IF ~answer.error /\ ~answer.null THEN ProductVariants(answer.rows) ELSE NoVariants

\* an empty list taken for a list of variants
HasColorVariantsIfArray(parsedProduct) == parsedProduct.color_variants.kind = "array"

\* parsedProduct.color_variants && parsedProduct.color_variants.length > 0
HasColorVariants(parsedProduct) ==
    /\ parsedProduct.color_variants.kind = "array"
    /\ Len(parsedProduct.color_variants.items) > 0

\* color_variants: variants || parsedProduct.color_variants
ProductResponseRawVariants(productData, variants) ==
    [id |-> productData.id,
     name |-> productData.name,
     brand_name |-> FieldOr(FirstOrSelf(productData.brands), "name", "Unknown Brand"),
     brand_logo |-> FieldOr(FirstOrSelf(productData.brands), "logo_url", ""),
     images |-> productData.images,
     seller_id |-> productData.seller_id,
     seller_name |-> FieldOr(FirstOrSelf(productData.sellers), "store_name", "Unknown Seller"),
     seller_logo |-> FieldOr(FirstOrSelf(productData.sellers), "logo_url", ""),
     color |-> productData.color,
     price |-> productData.price,
     color_variants |-> IF variants.kind = "null" THEN productData.color_variants
                        ELSE variants,
     tags |-> productData.tags]

\* the object getProductById returns for the row productData
ProductResponse(productData, variants) ==
    LET sellerData == FirstOrSelf(productData.sellers)
        brandData == FirstOrSelf(productData.brands)
    IN  [id |-> productData.id,
         name |-> productData.name,
         brand_name |-> FieldOr(brandData, "name", "Unknown Brand"),
         brand_logo |-> FieldOr(brandData, "logo_url", ""),
         images |-> productData.images,
         seller_id |-> productData.seller_id,
         seller_name |-> FieldOr(sellerData, "store_name", "Unknown Seller"),
         seller_logo |-> FieldOr(sellerData, "logo_url", ""),
         color |-> productData.color,
         price |-> productData.price,
         color_variants |-> variants,
         tags |-> productData.tags]

\* the main query completes: an error or no row gives null; a row without
\* colour variants is returned, a row with them goes on to the follow-up
GetProductById_Main ==
    /\ phase = "awaiting"
    /\ detail # <<>>
    /\ detail[1].pc = "main"
    /\ LET d == detail[1]
           null(e) == /\ detail' = <<[d EXCEPT !.pc = "done", !.error = e]>>
                      /\ outcome' = Returned(<<>>)
       IN  \/ null(UpstreamError)
           \/ /\ d.id \notin store
              /\ null(NoRowError)
           \/ /\ d.id \in store
              /\ IF HasColorVariants(Row(d.id))
                 THEN /\ detail' = <<[d EXCEPT !.pc = "variants",
                                               !.productData = <<d.id>>,
                                               !.queries = Append(@, VariantQuery)]>>
                      /\ outcome' = outcome
                 ELSE /\ detail' = <<[d EXCEPT !.pc = "done", !.productData = <<d.id>>]>>
                      /\ outcome' = Returned(<<ProductResponse(Row(d.id), NoVariants)>>)
    /\ store' = AfterSelect(store)
    /\ UNCHANGED <<phase, req, call, frames, results, response, mapped>>

\* the follow-up lookup completes: its rows become the variants, an error
\* or no data leaves them null
GetProductById_Variants ==
    /\ phase = "awaiting"
    /\ detail # <<>>
    /\ detail[1].pc = "variants"
    /\ LET d == detail[1]
       IN  \E answer \in VariantAnswers(store, color_variants(d.id).items) :
              /\ detail' = <<[d EXCEPT !.pc = "done", !.variantData = <<answer>>]>>
              /\ outcome' = Returned(<<ProductResponse(Row(d.id),
                                                       Variants(Row(d.id), answer))>>)
    /\ store' = AfterSelect(store)
    /\ UNCHANGED <<phase, req, call, frames, results, response, mapped>>

(***************************************************************************)
(* ProductController.                                                      *)
(***************************************************************************)
ListEndpoints == {"trending", "recommended", "latest", "sellerTopSelling"}

\* parseInt(req.query.limit) || <default>
DefaultLimit(ep) ==
    CASE ep \in {"trending", "recommended"} -> 10
      [] ep = "latest" -> 12
      [] ep = "sellerTopSelling" -> 8

Method(ep) ==
    CASE ep = "trending" -> "getTrendingProducts"
      [] ep = "recommended" -> "getRecommendedProducts"
      [] ep = "latest" -> "getLatestProducts"
      [] ep = "sellerTopSelling" -> "getTopSellingProductsBySeller"

ListingMethods == {Method(ep) : ep \in ListEndpoints}

\* the orchestrator behind each service method and its filter argument
Orchestrator(ep) ==
    CASE ep \in {"trending", "recommended"} -> "byTag"
      [] ep = "latest" -> "latest"
      [] ep = "sellerTopSelling" -> "bySeller"

FilterArg(ep, id) ==
    CASE ep = "trending" -> "TRENDING"
      [] ep = "recommended" -> "RECOMMENDED"
      [] ep = "latest" -> ""
      [] ep = "sellerTopSelling" -> id

\* the check of page left out
InvalidPaginationLimitOnly(page, limit) == limit < 1 \/ limit > 50

\* if (page < 1 || limit < 1 || limit > 50)
InvalidPagination(page, limit) == page < 1 \/ limit < 1 \/ limit > 50

BadRequest ==
    [code |-> 400,
     body |-> [status |-> "error",
               message |-> "Invalid pagination parameters. Page must be >= 1 and limit must be between 1 and 50."]]

GenericMessage(ep) ==
    CASE ep = "trending" -> "An error occurred while fetching trending products"
      [] ep = "recommended" -> "An error occurred while fetching recommended products"
      [] ep = "latest" -> "An error occurred while fetching latest products"
      [] ep = "sellerTopSelling" ->
            "An error occurred while fetching top selling products by seller"
      [] ep = "productDetail" -> "An error occurred while fetching the product"

\* the caught error's message sent to the client
ServerErrorLeaking(ep, error) ==
    [code |-> 500, body |-> [status |-> "error", message |-> error]]

\* the catch block of a handler
ServerError(ep, error) ==
    [code |-> 500, body |-> [status |-> "error", message |-> GenericMessage(ep)]]

Success(value) == [code |-> 200, body |-> [status |-> "success", data |-> value]]

\* a list handler up to its await: page and limit are parsed and checked,
\* then the service method is called
Receive(ep, id) ==
    /\ phase = "idle"
    /\ \E rp \in RawValues, rl \in RawValues :
          LET page == OrDefault(parseInt(rp), 1)
              limit == OrDefault(parseInt(rl), DefaultLimit(ep))
          IN  /\ req' = <<[endpoint |-> ep, page |-> rp, limit |-> rl, id |-> id]>>
              /\ IF InvalidPagination(page, limit)
                 THEN /\ response' = <<BadRequest>>
                      /\ phase' = "responded"
                      /\ UNCHANGED <<call, frames>>
                 ELSE /\ call' = <<[method |-> Method(ep), page |-> page,
                                    limit |-> limit, arg |-> FilterArg(ep, id),
                                    brands |-> NoBrands]>>
                      /\ frames' = <<ListStart(Orchestrator(ep), FilterArg(ep, id),
                                               page, limit)>>
                      /\ phase' = "awaiting"
                      /\ response' = response
    /\ UNCHANGED <<store, detail, results, outcome, mapped>>

\* a handler after its await: the result in a success envelope, or the
\* catch block
Respond(ep) ==
    /\ phase = "awaiting"
    /\ req[1].endpoint = ep
    /\ outcome # <<>>
    /\ response' = IF outcome[1].kind = "return"
                   THEN <<Success(outcome[1].value)>>
                   ELSE <<ServerError(ep, outcome[1].error)>>
    /\ phase' = "responded"
    /\ UNCHANGED <<store, req, call, frames, detail, results, outcome, mapped>>

GetTrendingProducts_Receive == Receive("trending", "")

GetTrendingProducts_Respond == Respond("trending")

GetRecommendedProducts_Receive == Receive("recommended", "")

GetRecommendedProducts_Respond == Respond("recommended")

GetLatestProducts_Receive == Receive("latest", "")

GetLatestProducts_Respond == Respond("latest")

GetTopSellingProductsBySeller_Receive == \E s \in Sellers : Receive("sellerTopSelling", s)

GetTopSellingProductsBySeller_Respond == Respond("sellerTopSelling")

\* the detail handler up to its await (the router never leaves productId
\* empty)
GetProductById_Receive ==
    /\ phase = "idle"
    /\ \E id \in Products :
          /\ req' = <<[endpoint |-> "productDetail", page |-> Absent,
                       limit |-> Absent, id |-> id]>>
          /\ call' = <<[method |-> "getProductById", page |-> 0, limit |-> 0,
                        arg |-> id, brands |-> NoBrands]>>
          /\ detail' = <<[id |-> id, pc |-> "main", queries |-> <<MainQuery>>,
                          productData |-> <<>>, variantData |-> <<>>,
                          error |-> ""]>>
    /\ phase' = "awaiting"
    /\ UNCHANGED <<store, frames, results, outcome, response, mapped>>

\* the detail handler after its await
GetProductById_Respond ==
    /\ phase = "awaiting"
    /\ req[1].endpoint = "productDetail"
    /\ outcome # <<>>
    /\ response' =
          IF outcome[1].kind = "throw"
          THEN <<ServerError("productDetail", outcome[1].error)>>
          ELSE IF outcome[1].value = <<>>
          THEN <<[code |-> 404, body |-> [message |-> "Product not found"]]>>
          ELSE <<Success(outcome[1].value[1])>>
    /\ phase' = "responded"
    /\ UNCHANGED <<store, req, call, frames, detail, results, outcome, mapped>>

\* the request is over; the next one starts from nothing
Finish ==
    /\ phase = "responded" \/ (phase = "direct" /\ outcome # <<>>)
    /\ phase' = "idle"
    /\ req' = <<>>
    /\ call' = <<>>
    /\ frames' = <<>>
    /\ detail' = <<>>
    /\ results' = NoResults
    /\ outcome' = <<>>
    /\ response' = <<>>
    /\ UNCHANGED <<store, mapped>>

Next ==
    \/ StoreWrite
    \/ GetTrendingProducts_Receive
    \/ GetTrendingProducts_Respond
    \/ GetRecommendedProducts_Receive
    \/ GetRecommendedProducts_Respond
    \/ GetLatestProducts_Receive
    \/ GetLatestProducts_Respond
    \/ GetTopSellingProductsBySeller_Receive
    \/ GetTopSellingProductsBySeller_Respond
    \/ GetProductById_Receive
    \/ GetProductById_Main
    \/ GetProductById_Variants
    \/ GetProductById_Respond
    \/ GetTopSellingProducts
    \/ GetLatestProducts_Count
    \/ GetLatestProducts_Data
    \/ GetProductsByTag_Count
    \/ GetProductsByTag_Data
    \/ GetTopSellingProductsBySeller_Count
    \/ GetTopSellingProductsBySeller_Data
    \/ GetOverallTopSellingProducts_Count
    \/ GetOverallTopSellingProducts_Data
    \/ GetTopSellingProductsByBrand_Lookup
    \/ GetTopSellingProductsByBrand_Count
    \/ GetTopSellingProductsByBrand_Data
    \/ Finish

Spec == Init /\ [][Next]_vars

\* the HTTP endpoints alone: the controllers and what they call
NextHttp ==
    \/ StoreWrite
    \/ GetTrendingProducts_Receive
    \/ GetTrendingProducts_Respond
    \/ GetRecommendedProducts_Receive
    \/ GetRecommendedProducts_Respond
    \/ GetLatestProducts_Receive
    \/ GetLatestProducts_Respond
    \/ GetTopSellingProductsBySeller_Receive
    \/ GetTopSellingProductsBySeller_Respond
    \/ GetProductById_Receive
    \/ GetProductById_Main
    \/ GetProductById_Variants
    \/ GetProductById_Respond
    \/ GetLatestProducts_Count
    \/ GetLatestProducts_Data
    \/ GetProductsByTag_Count
    \/ GetProductsByTag_Data
    \/ GetTopSellingProductsBySeller_Count
    \/ GetTopSellingProductsBySeller_Data
    \/ Finish

SpecHttp == Init /\ [][NextHttp]_vars

\* the store's owner idle: the contents of the store do not change
NextQuietStore ==
    \/ GetTrendingProducts_Receive
    \/ GetTrendingProducts_Respond
    \/ GetRecommendedProducts_Receive
    \/ GetRecommendedProducts_Respond
    \/ GetLatestProducts_Receive
    \/ GetLatestProducts_Respond
    \/ GetTopSellingProductsBySeller_Receive
    \/ GetTopSellingProductsBySeller_Respond
    \/ GetProductById_Receive
    \/ GetProductById_Main
    \/ GetProductById_Variants
    \/ GetProductById_Respond
    \/ GetTopSellingProducts
    \/ GetLatestProducts_Count
    \/ GetLatestProducts_Data
    \/ GetProductsByTag_Count
    \/ GetProductsByTag_Data
    \/ GetTopSellingProductsBySeller_Count
    \/ GetTopSellingProductsBySeller_Data
    \/ GetOverallTopSellingProducts_Count
    \/ GetOverallTopSellingProducts_Data
    \/ GetTopSellingProductsByBrand_Lookup
    \/ GetTopSellingProductsByBrand_Count
    \/ GetTopSellingProductsByBrand_Data
    \/ Finish

SpecQuietStore == Init /\ [][NextQuietStore]_vars

(***************************************************************************)
(* Row normalisation on its own: the service maps one row, in any shape a  *)
(* query may return its embedded relations and its image list in.          *)
(***************************************************************************)
SellerRecords ==
    { [store_name |-> "Store", logo_url |-> "store.png"],
      [store_name |-> NULL, logo_url |-> ""],
      [store_name |-> UNDEFINED, logo_url |-> UNDEFINED] }

BrandRecords ==
    { [name |-> "Nike", logo_url |-> "brand.png"],
      [name |-> "", logo_url |-> NULL],
      [name |-> UNDEFINED, logo_url |-> UNDEFINED] }

\* null, a missing property, an empty collection, a bare record, a
\* one-element collection
Relations(records) ==
    { [kind |-> "null", items |-> <<>>],
      [kind |-> "undefined", items |-> <<>>],
      [kind |-> "array", items |-> <<>>] }
    \cup {[kind |-> "object", items |-> <<r>>] : r \in records}
    \cup {[kind |-> "array", items |-> <<r>>] : r \in records}

\* images: arrays, null, a missing property, and a text that is no array
ImageLists ==
    { [kind |-> "array", items |-> <<"a.jpg", "b.jpg">>],
      [kind |-> "array", items |-> <<"c.jpg">>],
      [kind |-> "array", items |-> <<>>],
      [kind |-> "null", items |-> <<>>],
      [kind |-> "undefined", items |-> <<>>],
      [kind |-> "string", items |-> <<"a.jpg">>] }

RawItems ==
    { [Row(1) EXCEPT !.sellers = sl, !.brands = br, !.images = im] :
         sl \in Relations(SellerRecords), br \in Relations(BrandRecords),
         im \in ImageLists }

\* what each mapping of the service makes of one row
MapOutput(op, item) ==
    CASE op = "detail" -> ProductResponse(item, NoVariants)
      [] op = "variant" -> ProductVariant(item)
      [] OTHER -> Simplified(op, item)

MapOps == {"latest", "byTag", "bySeller", "overall", "byBrand", "detail", "variant"}

\* a row is in hand for one of the mappings, and no request is
InitMap ==
    /\ store = {}
    /\ phase = "idle"
    /\ req = <<>>
    /\ call = <<>>
    /\ frames = <<>>
    /\ detail = <<>>
    /\ results = NoResults
    /\ outcome = <<>>
    /\ response = <<>>
    /\ mapped \in {<<[op |-> op, item |-> item, out |-> <<>>]>> :
                      op \in MapOps, item \in RawItems}

MapItem(op) ==
    /\ mapped # <<>>
    /\ mapped[1].op = op
    /\ mapped[1].out = <<>>
    /\ mapped' = <<[mapped[1] EXCEPT !.out = <<MapOutput(op, mapped[1].item)>>]>>
    /\ UNCHANGED <<store, phase, req, call, frames, detail, results, outcome, response>>

GetLatestProducts_Map == MapItem("latest")

GetProductsByTag_Map == MapItem("byTag")

GetTopSellingProductsBySeller_Map == MapItem("bySeller")

GetOverallTopSellingProducts_Map == MapItem("overall")

GetTopSellingProductsByBrand_Map == MapItem("byBrand")

GetProductById_Map == MapItem("detail")

GetProductById_MapVariant == MapItem("variant")

NextMap ==
    \/ GetLatestProducts_Map
    \/ GetProductsByTag_Map
    \/ GetTopSellingProductsBySeller_Map
    \/ GetOverallTopSellingProducts_Map
    \/ GetTopSellingProductsByBrand_Map
    \/ GetProductById_Map
    \/ GetProductById_MapVariant

SpecMap == InitMap /\ [][NextMap]_vars

(***************************************************************************)
(* The routers.  A path is the sequence of its segments below /api; a      *)
(* router tries its routes in the order they were registered and the first *)
(* route that matches handles the request.                                 *)
(***************************************************************************)
\* /:productId registered before the literal routes
ProductRoutesDetailFirst ==
    << [pattern |-> <<":productId">>, handler |-> "productDetail"],
       [pattern |-> <<"trending">>, handler |-> "trending"],
       [pattern |-> <<"recommended">>, handler |-> "recommended"],
       [pattern |-> <<"latest">>, handler |-> "latest"],
       [pattern |-> <<"top-selling">>, handler |-> "topSelling"],
       [pattern |-> <<":sellerId", "top-selling">>, handler |-> "sellerTopSelling"] >>

\* the product router, in registration order
ProductRoutes ==
    << [pattern |-> <<"trending">>, handler |-> "trending"],
       [pattern |-> <<"recommended">>, handler |-> "recommended"],
       [pattern |-> <<"latest">>, handler |-> "latest"],
       [pattern |-> <<"top-selling">>, handler |-> "topSelling"],
       [pattern |-> <<":productId">>, handler |-> "productDetail"],
       [pattern |-> <<":sellerId", "top-selling">>, handler |-> "sellerTopSelling"] >>

\* the seller router
SellerRoutes == << [pattern |-> <<"featured">>, handler |-> "featuredSellers"] >>

\* router.use('/product', productRoutes); router.use('/sellers', sellerRoutes)
Mounts ==
    << [mount |-> "product", routes |-> ProductRoutes],
       [mount |-> "sellers", routes |-> SellerRoutes] >>

IsParam(segment) == segment \in {":productId", ":sellerId"}

\* a route matches a path of as many segments whose literal segments agree
MatchPath(pattern, path) ==
    /\ Len(pattern) = Len(path)
    /\ \A i \in DOMAIN pattern : IsParam(pattern[i]) \/ pattern[i] = path[i]

\* the value of the route's parameter
ParamOf(pattern, path) ==
    IF \E i \in DOMAIN pattern : IsParam(pattern[i])
    THEN path[CHOOSE i \in DOMAIN pattern : IsParam(pattern[i])]
    ELSE ""

\* the index of the first route of a router, in registration order, that
\* matches: 0 when none does
FirstMatch(routes, path) ==
    LET hits == {r \in DOMAIN routes : MatchPath(routes[r].pattern, path)}
    IN  IF hits = {} THEN 0 ELSE CHOOSE r \in hits : \A q \in hits : r <= q

\* the route that handles the path: the first match of the first mounted
\* router that has one, <<>> when there is none
Dispatch(path) ==
    LET hits == {m \in DOMAIN Mounts :
                    /\ path # <<>>
                    /\ Mounts[m].mount = Head(path)
                    /\ FirstMatch(Mounts[m].routes, Tail(path)) # 0}
    IN  IF hits = {} THEN <<>>
        ELSE LET m == CHOOSE h \in hits : \A g \in hits : h <= g
                 route == Mounts[m].routes[FirstMatch(Mounts[m].routes, Tail(path))]
             IN  <<[handler |-> route.handler, id |-> ParamOf(route.pattern, Tail(path))]>>

Segments == {"trending", "recommended", "latest", "top-selling", "1", "seller-1", "featured"}

\* the paths requested: a mount and up to two segments below it
Paths == {<<m>> \o rest : m \in {"product", "sellers"}, rest \in SeqsUpTo(Segments, 2)}

\* a request is handed to the handler of the first matching route
RouteRequest ==
    /\ phase = "idle"
    /\ \E path \in Paths :
          /\ Dispatch(path) # <<>>
          /\ req' = <<[endpoint |-> Dispatch(path)[1].handler, page |-> Absent,
                       limit |-> Absent, id |-> Dispatch(path)[1].id, path |-> path]>>
    /\ phase' = "routed"
    /\ UNCHANGED <<store, call, frames, detail, results, outcome, response, mapped>>

\* no route matches: the app's 404 handler
AppNotFound ==
    /\ phase = "idle"
    /\ \E path \in Paths :
          /\ Dispatch(path) = <<>>
          /\ req' = <<[endpoint |-> "notFound", page |-> Absent, limit |-> Absent,
                       id |-> "", path |-> path]>>
    /\ response' = <<[code |-> 404, body |-> [message |-> "Not found"]]>>
    /\ phase' = "responded"
    /\ UNCHANGED <<store, call, frames, detail, results, outcome, mapped>>

NextRoute ==
    \/ RouteRequest
    \/ AppNotFound
    \/ Finish

SpecRoute == Init /\ [][NextRoute]_vars

(***************************************************************************)
(* Properties.                                                             *)
(***************************************************************************)
\* the envelopes the listing orchestrators have returned
ReturnedResults == {frames[i].result[1] : i \in {j \in DOMAIN frames : frames[j].result # <<>>}}

TheCall == call[1]

TheOutcome == outcome[1]

MappingReturned == FanOut /\ outcome # <<>> /\ TheOutcome.kind = "return"

LastQuery(f) == f.queries[Len(f.queries)]

\* C1: every PaginatedResult a listing orchestrator returns, for page >= 1,
\* 1 <= limit <= 50 and total >= 0, has totalPages = ceil(total / limit):
\* the least number of pages of limit rows that hold total rows, which is 0
\* exactly when total is 0; a null count is total 0.
C1_TotalPagesIsCeiling ==
    /\ \A r \in ReturnedResults :
          /\ r.page >= 1 /\ r.limit \in 1..50 /\ r.total >= 0
          /\ r.totalPages * r.limit >= r.total
          /\ (r.totalPages - 1) * r.limit < r.total
          /\ r.totalPages = 0 <=> r.total = 0
    /\ \A i \in DOMAIN frames :
          frames[i].result # <<>> /\ frames[i].count.null => frames[i].result[1].total = 0

\* a last page that is not full, after a full one
C1_Witness ==
    \E r \in ReturnedResults : r.total > r.limit /\ r.total % r.limit # 0

\* C2: in every PaginatedResult a listing orchestrator returns, total = 0
\* implies that data is empty, whatever the store did between the count
\* query and the data query and whether or not the count was null.
C2_ZeroTotalMeansNoData ==
    \A r \in ReturnedResults : r.total = 0 => r.data = <<>>

\* C3: in the fan-out a unit whose brand lookup reports an error (no match,
\* several matches, an upstream error) returns the empty envelope with the
\* requested page and limit; the mapping holds under each token the
\* envelope a getTopSellingProductsByBrand call for that token returned,
\* the empty one when the token's lookups failed; and when no unit fails
\* otherwise the call returns.
C3_LookupFailureGivesEmptyResult ==
    FanOut =>
       /\ \A i \in DOMAIN frames :
             frames[i].error = "brandError" =>
                /\ frames[i].pc = "returned"
                /\ frames[i].result = <<EmptyResult(TheCall.page, TheCall.limit)>>
       /\ MappingReturned =>
             \A i \in DOMAIN frames :
                LET t == frames[i].token
                    same == {j \in DOMAIN frames : frames[j].token = t}
                IN  /\ t \in DOMAIN TheOutcome.value
                    /\ \E j \in same : TheOutcome.value[t] = frames[j].result[1]
                    /\ (\A j \in same : frames[j].error = "brandError") =>
                          TheOutcome.value[t] = EmptyResult(TheCall.page, TheCall.limit)
       /\ (\A i \in DOMAIN frames : frames[i].pc = "returned") => MappingReturned

\* one token's lookup failed, another token has rows
C3_Witness ==
    /\ MappingReturned
    /\ \E i, j \in DOMAIN frames :
          /\ frames[i].error = "brandError"
          /\ TheOutcome.value[frames[i].token] = EmptyResult(TheCall.page, TheCall.limit)
          /\ frames[j].error = ""
          /\ TheOutcome.value[frames[j].token].data # <<>>

\* C4 as stated: in the fan-out no failure inside a unit (brand lookup,
\* count query, data query) makes the call fail.
C4_NoFailureFailsTheCall ==
    FanOut /\ outcome # <<>> => TheOutcome.kind = "return"

\* C4 as amended: in the fan-out a brand-lookup failure is answered with the
\* empty envelope and never fails the call; a count-query or data-query
\* error is thrown by its unit and fails the call with that error; the
\* sibling units are not aborted, each can still take its next step.
C4_OnlyQueryErrorsFailTheCall ==
    FanOut =>
       /\ \A i \in DOMAIN frames :
             /\ frames[i].pc = "threw" =>
                   /\ LastQuery(frames[i]).kind \in {"count", "data"}
                   /\ frames[i].error = UpstreamError
                   /\ outcome # <<>> /\ TheOutcome.kind = "throw"
             /\ frames[i].pc \in {"lookup", "count", "data"} =>
                   ENABLED Step("byBrand", frames[i].pc)
       /\ outcome # <<>> /\ TheOutcome.kind = "throw" =>
             \E i \in DOMAIN frames :
                frames[i].pc = "threw" /\ TheOutcome.error = frames[i].error

\* the call failed on one unit's query error, after another unit's lookup
\* failure was answered with the empty envelope and while a third step is
\* still to come
C4_Witness ==
    /\ FanOut
    /\ outcome # <<>> /\ TheOutcome.kind = "throw"
    /\ \E i, j \in DOMAIN frames :
          /\ frames[i].error = "brandError" /\ frames[i].pc = "returned"
          /\ frames[j].pc = "threw"

\* C5: the mapping is returned only when every unit has returned; its keys
\* are exactly the tokens supplied (not the brand ids they resolve to), and
\* each key holds an envelope returned for that token.
C5_MappingKeyedByToken ==
    MappingReturned =>
       /\ \A i \in DOMAIN frames : frames[i].pc = "returned"
       /\ DOMAIN TheOutcome.value = Range(TheCall.brands.list)
       /\ \A t \in DOMAIN TheOutcome.value :
             \E i \in DOMAIN frames :
                frames[i].token = t /\ TheOutcome.value[t] = frames[i].result[1]

\* two tokens, one of them a name resolved to a brand id that is no key
C5_Witness ==
    /\ MappingReturned
    /\ Cardinality(DOMAIN TheOutcome.value) = 2
    /\ \E i \in DOMAIN frames :
          /\ frames[i].arg \notin {NULL, frames[i].token}
          /\ frames[i].arg \notin DOMAIN TheOutcome.value
          /\ TheOutcome.value[frames[i].token].data # <<>>

\* C6: a count-query or data-query error makes the orchestrator throw: it
\* returns no envelope and the service call fails; the controller then
\* answers 500 with its fixed message, which is not the upstream error, and
\* with no data.
C6_QueryErrorsPropagate ==
    \A i \in DOMAIN frames :
       frames[i].error = UpstreamError =>
          /\ frames[i].pc = "threw"
          /\ frames[i].result = <<>>
          /\ outcome # <<>> /\ TheOutcome.kind = "throw"
          /\ response # <<>> =>
                /\ response[1].code = 500
                /\ DOMAIN response[1].body = {"status", "message"}
                /\ response[1].body.status = "error"
                /\ response[1].body.message = GenericMessage(req[1].endpoint)
                /\ response[1].body.message # frames[i].error

\* a controller has answered a request whose data query reported an error
C6_Witness ==
    /\ response # <<>>
    /\ \E i \in DOMAIN frames :
          frames[i].error = UpstreamError /\ LastQuery(frames[i]).kind = "data"

\* C7: on the product-detail endpoint an error the store reports for the
\* detail query is answered with the server error (500), never with the
\* not-found response.
C7_UpstreamFailureIsNotNotFound ==
    /\ response # <<>>
    /\ req[1].endpoint = "productDetail"
    /\ detail[1].error = UpstreamError
    => response[1].code = 500

\* a page or limit parameter that is supplied and is not a number, or is
\* outside the allowed range
BadPage(raw) == raw.present /\ (parseInt(raw).nan \/ parseInt(raw).val < 1)

BadLimit(raw) ==
    raw.present /\ (parseInt(raw).nan \/ parseInt(raw).val < 1 \/ parseInt(raw).val > 50)

\* C8: a list request whose supplied page is below 1 or no number, or whose
\* supplied limit is below 1, above 50 or no number, is answered with 400
\* and the service is not called for it.
C8_InvalidPaginationRejected ==
    /\ req # <<>>
    /\ req[1].endpoint \in ListEndpoints
    /\ BadPage(req[1].page) \/ BadLimit(req[1].limit)
    => /\ call = <<>>
       /\ response # <<>>
       /\ response[1].code = 400

\* C9: a controller calls a listing method only with an integer page >= 1
\* and an integer limit in 1..50, whatever the page and limit parameters
\* are; the offset of the range query is (page - 1) * limit and is never
\* negative.
C9_ServiceArgsInRange ==
    call # <<>> /\ TheCall.method \in ListingMethods =>
       /\ TheCall.page \in Int /\ TheCall.page >= 1
       /\ TheCall.limit \in Int /\ TheCall.limit >= 1 /\ TheCall.limit <= 50
       /\ \A i \in DOMAIN frames :
             /\ frames[i].page = TheCall.page
             /\ frames[i].limit = TheCall.limit
             /\ \A k \in DOMAIN frames[i].queries :
                   frames[i].queries[k].kind = "data" =>
                      /\ frames[i].queries[k].from = (TheCall.page - 1) * TheCall.limit
                      /\ frames[i].queries[k].from >= 0

\* page=2.5 was cut to 2 and the range query starts past the first page
C9_Witness ==
    /\ req # <<>>
    /\ req[1].page = Supplied(<<"2", ".", "5">>)
    /\ \E i \in DOMAIN frames :
          /\ LastQuery(frames[i]).kind = "data"
          /\ LastQuery(frames[i]).from > 0
          /\ frames[i].pc = "returned"

\* C10: getTopSellingProductsByBrand queries the brands collection if and
\* only if its token does not match the UUID pattern; a token that matches
\* is the brand id of the count query and the data query.
C10_UuidBypassesLookup ==
    \A i \in DOMAIN frames :
       frames[i].op = "byBrand" =>
          LET isUuid == uuidPatternTest(Text(frames[i].token))
              looked == \E k \in DOMAIN frames[i].queries :
                           frames[i].queries[k].table = "brands"
          IN  /\ looked <=> ~isUuid
              /\ isUuid => frames[i].arg = frames[i].token

\* a UUID token went through count and data without a lookup, next to a
\* UUID-shaped token that the pattern rejects and that was looked up
C10_Witness ==
    \E i, j \in DOMAIN frames :
       /\ frames[i].token = BrandIdNike
       /\ frames[i].pc = "returned"
       /\ frames[i].result[1].data # <<>>
       /\ Len(frames[i].queries) = 2
       /\ frames[j].token = NilUuid
       /\ frames[j].queries[1].table = "brands"

\* position of row p among the active rows of rows, highest sales first
SalesPosition(rows, p) ==
    Cardinality({q \in rows : is_active(q) /\ sales_till_date(q) > sales_till_date(p)})

\* page number page of the active rows of rows, highest sales first
OverallPage(rows, page, limit) ==
    LET first == (page - 1) * limit
        on == {p \in rows : is_active(p) /\ SalesPosition(rows, p) \in first..(first + limit - 1)}
    IN  [i \in 1..Cardinality(on) |->
            CHOOSE p \in on : SalesPosition(rows, p) = first + i - 1]

\* the least number of pages of limit rows that hold total rows
PagesFor(total, limit) ==
    CHOOSE n \in 0..total : n * limit >= total /\ (n = 0 \/ (n - 1) * limit < total)

\* what the overall top-selling pipeline returns for rows
OverallResult(rows, page, limit) ==
    LET ids == OverallPage(rows, page, limit)
        total == Cardinality({p \in rows : is_active(p)})
    IN  [data |-> [i \in DOMAIN ids |-> Simplified("overall", Row(ids[i]))],
         total |-> total,
         page |-> page,
         limit |-> limit,
         totalPages |-> PagesFor(total, limit)]

ZeroBrandsCall ==
    /\ call # <<>>
    /\ TheCall.method = "getTopSellingProducts"
    /\ ~TheCall.brands.present \/ TheCall.brands.list = <<>>

\* C11: getTopSellingProducts called without a brand list or with an empty
\* one runs the overall top-selling pipeline and nothing else (no brand
\* lookup, no mapping): it fails only when a query of that pipeline reports
\* an error, and otherwise returns the one PaginatedResult of the pipeline,
\* which for an unchanged store is the requested page of the active rows by
\* sales-to-date descending, with their total.
C11_ZeroBrandsIsOverall ==
    ZeroBrandsCall =>
       /\ Len(frames) = 1
       /\ frames[1].op = "overall"
       /\ frames[1].page = TheCall.page /\ frames[1].limit = TheCall.limit
       /\ \A k \in DOMAIN frames[1].queries : frames[1].queries[k].table = "products"
       /\ results = NoResults
       /\ frames[1].pc \in {"returned", "threw"} <=> outcome # <<>>
       /\ outcome # <<>> =>
             IF TheOutcome.kind = "throw"
             THEN frames[1].error = UpstreamError /\ TheOutcome.error = UpstreamError
             ELSE /\ DOMAIN TheOutcome.value = {"data", "total", "page", "limit", "totalPages"}
                  /\ TheOutcome.value = frames[1].result[1]
                  /\ ~frames[1].count.null /\ ~frames[1].data.null =>
                        TheOutcome.value = OverallResult(store, TheCall.page, TheCall.limit)

\* an empty brand list, page 2 of limit 1, and a row on it
C11_Witness ==
    /\ ZeroBrandsCall
    /\ TheCall.brands.present
    /\ TheCall.page = 2
    /\ outcome # <<>> /\ TheOutcome.kind = "return"
    /\ TheOutcome.value.data # <<>>
    /\ TheOutcome.value.total > 1

ListOps == {"latest", "byTag", "bySeller", "overall", "byBrand"}

\* a row has been mapped
Mapped == mapped # <<>> /\ mapped[1].out # <<>>

TheDto == mapped[1].out[1]

Wrapped(rel) == [kind |-> "array", items |-> rel.items]

NullRelation == [kind |-> "null", items |-> <<>>]

AbsentRelation(rel) == rel.kind \in {"null", "undefined"} \/ rel.items = <<>>

\* C12: for every orchestrator (the five listings and the product detail)
\* and for both joined relations, a row whose relation is the bare record r
\* gives the same DTO as the same row whose relation is the collection [r];
\* and a relation that is null, missing or an empty collection gives the DTO
\* of the same row with that relation null.
C12_RecordAndCollectionAgree ==
    Mapped /\ mapped[1].op \in ListOps \cup {"detail"} =>
       LET m == mapped[1]
       IN  /\ m.item.sellers.kind = "object" =>
                TheDto = MapOutput(m.op, [m.item EXCEPT !.sellers = Wrapped(@)])
           /\ m.item.brands.kind = "object" =>
                TheDto = MapOutput(m.op, [m.item EXCEPT !.brands = Wrapped(@)])
           /\ AbsentRelation(m.item.sellers) =>
                TheDto = MapOutput(m.op, [m.item EXCEPT !.sellers = NullRelation])
           /\ AbsentRelation(m.item.brands) =>
                TheDto = MapOutput(m.op, [m.item EXCEPT !.brands = NullRelation])

\* the product detail mapped a row whose seller is a bare record with a name
\* and whose brand is missing
C12_Witness ==
    /\ Mapped
    /\ mapped[1].op = "detail"
    /\ mapped[1].item.sellers.kind = "object"
    /\ TheDto.seller_name = "Store"
    /\ mapped[1].item.brands.kind = "undefined"

\* the value of a field of a joined relation as the store sent it: UNDEFINED
\* when the relation is null, missing or empty
Joined(rel, field) ==
    IF AbsentRelation(rel) THEN UNDEFINED ELSE rel.items[1][field]

FieldIsFallback(value, joined, fallback) ==
    /\ value \notin {NULL, UNDEFINED}
    /\ joined \in {NULL, UNDEFINED} => value = fallback
    /\ joined \notin {NULL, UNDEFINED, ""} => value = joined

\* C13: in every DTO an orchestrator makes of a row (list item or product
\* detail), seller_name, seller_logo, brand_name and brand_logo are never
\* null or undefined: a join that is absent or lacks the field gives
\* "Unknown Seller" / "" / "Unknown Brand" / "", and a field that has a text
\* is passed on.
C13_FallbackDefaults ==
    Mapped /\ mapped[1].op \in ListOps \cup {"detail"} =>
       LET item == mapped[1].item
       IN  /\ FieldIsFallback(TheDto.seller_name, Joined(item.sellers, "store_name"),
                              "Unknown Seller")
           /\ FieldIsFallback(TheDto.seller_logo, Joined(item.sellers, "logo_url"), "")
           /\ FieldIsFallback(TheDto.brand_name, Joined(item.brands, "name"),
                              "Unknown Brand")
           /\ FieldIsFallback(TheDto.brand_logo, Joined(item.brands, "logo_url"), "")

\* a list item whose seller record has a null name and whose brand join is
\* null
C13_Witness ==
    /\ Mapped
    /\ mapped[1].op = "latest"
    /\ mapped[1].item.sellers.kind = "object"
    /\ mapped[1].item.sellers.items[1].store_name = NULL
    /\ mapped[1].item.brands.kind = "null"
    /\ TheDto.seller_name = "Unknown Seller"
    /\ TheDto.brand_logo = ""

\* C14: the image of every list item and of every ProductVariant is the
\* first element of the row's image list when that list is a non-empty
\* array, and the empty string when the list is an empty array, missing,
\* null or no array.
C14_RepresentativeImage ==
    Mapped /\ mapped[1].op \in ListOps \cup {"variant"} =>
       LET imgs == mapped[1].item.images
       IN  IF imgs.kind = "array" /\ imgs.items # <<>>
           THEN TheDto.image = Head(imgs.items)
           ELSE TheDto.image = ""

\* a variant with two images, of which the first is taken
C14_Witness ==
    /\ Mapped
    /\ mapped[1].op = "variant"
    /\ mapped[1].item.images = [kind |-> "array", items |-> <<"a.jpg", "b.jpg">>]
    /\ TheDto.image = "a.jpg"

\* getProductById has returned a product
DetailReturned ==
    /\ detail # <<>>
    /\ detail[1].pc = "done"
    /\ outcome # <<>> /\ TheOutcome.kind = "return" /\ TheOutcome.value # <<>>

TheProduct == TheOutcome.value[1]

\* the follow-up lookup was answered, without an error and with data
VariantLookupSucceeded ==
    /\ detail[1].variantData # <<>>
    /\ ~detail[1].variantData[1].error
    /\ ~detail[1].variantData[1].null

IsProductVariant(v) ==
    /\ DOMAIN v = {"id", "color", "image"}
    /\ v.id \in Products
    /\ v.color = color(v.id)

\* C15: for a product with a non-empty color_variants list whose follow-up
\* lookup succeeds, the result's color_variants holds one ProductVariant for
\* each row the lookup returned, in the lookup's order, and no entry for an
\* id the lookup did not return.
C15_VariantsAreTheLookupRows ==
    DetailReturned /\ VariantLookupSucceeded =>
       LET rows == detail[1].variantData[1].rows
           cv == TheProduct.color_variants
       IN  /\ color_variants(detail[1].id).items # <<>>
           /\ cv.kind = "array"
           /\ Len(cv.items) = Len(rows)
           /\ \A i \in DOMAIN rows :
                 /\ IsProductVariant(cv.items[i])
                 /\ cv.items[i].id = rows[i]
                 /\ rows[i] \in Range(color_variants(detail[1].id).items)

\* of two variant ids the lookup returned one
C15_Witness ==
    /\ DetailReturned
    /\ VariantLookupSucceeded
    /\ Len(color_variants(detail[1].id).items) = 2
    /\ Len(TheProduct.color_variants.items) = 1

\* C16: in every product getProductById returns, color_variants is null or
\* a list of ProductVariant records {id, color, image}, never the list of
\* ids of the product row; it is null when the follow-up lookup reports an
\* error or returns no data.
C16_VariantsNeverRawIds ==
    DetailReturned =>
       LET cv == TheProduct.color_variants
       IN  /\ \/ cv.kind = "null" /\ cv.items = <<>>
              \/ /\ cv.kind = "array"
                 /\ cv.of = "ProductVariant"
                 /\ \A i \in DOMAIN cv.items : IsProductVariant(cv.items[i])
           /\ detail[1].variantData # <<>> /\ ~VariantLookupSucceeded => cv.kind = "null"

\* the follow-up lookup for a product with two variant ids reported an error
C16_Witness ==
    /\ DetailReturned
    /\ detail[1].variantData # <<>>
    /\ detail[1].variantData[1].error
    /\ Len(color_variants(detail[1].id).items) = 2
    /\ TheProduct.color_variants.kind = "null"

VariantLookupIssued ==
    \E k \in DOMAIN detail[1].queries : detail[1].queries[k] = VariantQuery

\* C17: getProductById issues the follow-up lookup exactly when the main row
\* was found and its color_variants list is present and not empty; for a
\* list that is null or empty there is no second query and the result's
\* color_variants is null.
C17_FollowUpOnlyForVariants ==
    detail # <<>> /\ detail[1].pc # "main" =>
       LET found == detail[1].productData # <<>>
           list == color_variants(detail[1].id)
           nonEmpty == list.kind = "array" /\ list.items # <<>>
       IN  /\ VariantLookupIssued <=> found /\ nonEmpty
           /\ Len(detail[1].queries) = IF found /\ nonEmpty THEN 2 ELSE 1
           /\ found /\ ~nonEmpty =>
                 /\ DetailReturned
                 /\ TheProduct.color_variants.kind = "null"

\* a row with an empty list was returned after one query, with no variants
C17_Witness ==
    /\ DetailReturned
    /\ color_variants(detail[1].id).kind = "array"
    /\ color_variants(detail[1].id).items = <<>>
    /\ Len(detail[1].queries) = 1
    /\ TheProduct.color_variants.kind = "null"

\* row a comes before row b in the sort order of the listing op
Before(op, a, b) ==
    CASE op = "latest" -> created_at(a) > created_at(b)
      [] op = "byTag" -> name_rank(a) < name_rank(b)
      [] OTHER -> sales_till_date(a) > sales_till_date(b)

Min(a, b) == IF a < b THEN a ELSE b

Max(a, b) == IF a > b THEN a ELSE b

\* the listing frame f returned what the store answered to its count query
\* and to its data query
AnsweredListing(f) ==
    f.pc = "returned" /\ f.error = "" /\ ~f.count.null /\ ~f.data.null

\* C18: while the store does not change, a listing with page p and limit l
\* over N matching rows returns total N, page p, limit l and as data the
\* rows at positions (p-1)*l .. (p-1)*l + l - 1 of the matching rows in the
\* listing's sort order, min(l, max(0, N - (p-1)*l)) of them.
C18_PageOfMatchingRows ==
    \A i \in DOMAIN frames :
       AnsweredListing(frames[i]) =>
          LET f == frames[i]
              r == f.result[1]
              matching == {p \in store : Matches(f.op, f.arg, p)}
              N == Cardinality(matching)
              position(p) == Cardinality({q \in matching : Before(f.op, q, p)})
          IN  /\ r.total = N
              /\ r.page = TheCall.page
              /\ r.limit = TheCall.limit
              /\ Len(r.data) = Min(r.limit, Max(0, N - (r.page - 1) * r.limit))
              /\ \A k \in DOMAIN r.data :
                    /\ r.data[k].id \in matching
                    /\ position(r.data[k].id) = (r.page - 1) * r.limit + k - 1

\* three active rows, page 1 and limit 2 on the latest listing: two rows,
\* total 3, two pages
C18_Witness ==
    \E i \in DOMAIN frames :
       /\ AnsweredListing(frames[i])
       /\ frames[i].op = "latest"
       /\ frames[i].result[1].page = 1
       /\ frames[i].result[1].limit = 2
       /\ Len(frames[i].result[1].data) = 2
       /\ frames[i].result[1].total = 3
       /\ frames[i].result[1].totalPages = 2

\* C19: every response body a controller sends carries status "success"
\* with data or status "error" with message, on every path (success,
\* validation error, not found, server error).
C19_EveryBodyHasStatus ==
    response # <<>> =>
       LET body == response[1].body
       IN  /\ "status" \in DOMAIN body
           /\ IF body.status = "success" THEN "data" \in DOMAIN body
              ELSE body.status = "error" /\ "message" \in DOMAIN body

LiteralRoutes == {"trending", "recommended", "latest", "top-selling"}

HandlerOf(literal) == IF literal = "top-selling" THEN "topSelling" ELSE literal

\* C20: with the routes tried in registration order, each of the literal
\* product paths trending, recommended, latest and top-selling goes to its
\* own listing handler, never to the product-detail handler with the
\* literal as product id; and a path <sellerId>/top-selling goes to the
\* seller top-selling handler with that seller id.
C20_LiteralRoutesWin ==
    req # <<>> /\ "path" \in DOMAIN req[1] /\ Head(req[1].path) = "product" =>
       LET rest == Tail(req[1].path)
       IN  /\ Len(rest) = 1 /\ rest[1] \in LiteralRoutes =>
                /\ req[1].endpoint = HandlerOf(rest[1])
                /\ req[1].endpoint # "productDetail"
           /\ Len(rest) = 2 /\ rest[2] = "top-selling" =>
                /\ req[1].endpoint = "sellerTopSelling"
                /\ req[1].id = rest[1]
           /\ req[1].endpoint = "productDetail" =>
                Len(rest) = 1 /\ req[1].id = rest[1] /\ rest[1] \notin LiteralRoutes

\* /product/top-selling went to the top-selling listing
C20_Witness ==
    /\ req # <<>>
    /\ "path" \in DOMAIN req[1]
    /\ req[1].path = <<"product", "top-selling">>
    /\ req[1].endpoint = "topSelling"
    /\ phase = "routed"

\* nothing is in hand: no request, no call, no frame, no result
CoreStateEmpty ==
    /\ req = <<>>
    /\ call = <<>>
    /\ frames = <<>>
    /\ detail = <<>>
    /\ results = NoResults
    /\ outcome = <<>>
    /\ response = <<>>

\* a step of a controller or of the service
CoreStep == <<phase, req, call, frames, detail, results, outcome, response>>' #
            <<phase, req, call, frames, detail, results, outcome, response>>

\* C21: no step of a controller or of the service changes the store's
\* contents, whether the request succeeds or fails; and nothing of a
\* request outlives it: between requests no request, call, frame, results
\* object, outcome or response is in hand, so a request starts from its
\* inputs and the store alone.
C21_CoreIsReadOnlyAndStateless ==
    /\ [](phase = "idle" => CoreStateEmpty)
    /\ [][CoreStep => store' = store]_vars

\* a fan-out failed on one unit's query error after another unit had
\* returned rows, and the rows are still in the store
C21_Witness ==
    /\ FanOut
    /\ outcome # <<>> /\ TheOutcome.kind = "throw"
    /\ \E i \in DOMAIN frames :
          /\ frames[i].pc = "returned"
          /\ frames[i].result[1].data # <<>>
          /\ \A k \in DOMAIN frames[i].result[1].data :
                frames[i].result[1].data[k].id \in store

\* the kinds of the queries frame f has issued, in the order of issue
KindsIssued(f) == [k \in DOMAIN f.queries |-> f.queries[k].kind]

IsPrefix(a, b) == Len(a) <= Len(b) /\ a = SubSeq(b, 1, Len(a))

\* C22: a listing orchestrator issues its queries one after the other and
\* each once: the brand lookup (for a token that is no UUID), then the
\* count query, then the data query.  A query is issued only when the one
\* before it has completed without an error, so a failed brand lookup is
\* followed by no count query and no data query and a failed count query by
\* no data query; and the envelope of rows and count is built only when the
\* data query has completed.
C22_OneQueryPairInOrder ==
    \A i \in DOMAIN frames :
       LET f == frames[i]
           kinds == KindsIssued(f)
           last == kinds[Len(kinds)]
       IN  /\ \/ IsPrefix(kinds, <<"count", "data">>)
              \/ IsPrefix(kinds, <<"lookup", "count", "data">>)
           /\ f.pc \in {"lookup", "count", "data"} => last = f.pc /\ f.error = ""
           /\ f.error # "" =>
                 /\ f.pc = IF f.error = "brandError" THEN "returned" ELSE "threw"
                 /\ f.error = "brandError" <=> last = "lookup"
           /\ f.result # <<>> <=> f.pc = "returned"
           /\ f.pc = "returned" /\ f.error = "" => last = "data"
           /\ f.pc = "threw" => f.error # "" /\ last \in {"count", "data"}

\* in one fan-out a token went through lookup, count and data and returned
\* rows, and another stopped at its failed lookup
C22_Witness ==
    \E i, j \in DOMAIN frames :
       /\ KindsIssued(frames[i]) = <<"lookup", "count", "data">>
       /\ frames[i].pc = "returned"
       /\ frames[i].result[1].data # <<>>
       /\ KindsIssued(frames[j]) = <<"lookup">>
       /\ frames[j].error = "brandError"

\* every unit that ran its queries was answered with a count and with rows
UnitsAnswered ==
    \A i \in DOMAIN frames :
       frames[i].error = "" => ~frames[i].count.null /\ ~frames[i].data.null

\* C23: while the store does not change, the mapping the fan-out returns
\* does not depend on the order in which the units complete: units of
\* different tokens write different keys, and the units of a token listed
\* more than once write equal values, so each key holds the result of every
\* unit of its token.
C23_MappingIndependentOfOrder ==
    MappingReturned /\ UnitsAnswered =>
       \A i, j \in DOMAIN frames :
          /\ TheOutcome.value[frames[i].token] = frames[i].result[1]
          /\ frames[i].token = frames[j].token => frames[i].result = frames[j].result

\* the brands a token matches by name
NameHits(token) == {b \in BrandsTable : ilike(b.name, Text(token))}

\* the tokens that are looked up by name and match more than one brand
AmbiguousTokens ==
    {t \in Tokens : ~uuidPatternTest(Text(t)) /\ Cardinality(NameHits(t)) > 1}

\* the tokens that are looked up by name and match no brand
UnmatchedTokens ==
    {t \in Tokens : ~uuidPatternTest(Text(t)) /\ NameHits(t) = {}}

\* C24: a token that is no UUID and matches more than one brand by name
\* makes the single-row lookup report an error, and
\* getTopSellingProductsByBrand returns the empty PaginatedResult for it,
\* the same result after the same one query as for a token that matches no
\* brand: no brand id is picked, no count or data query goes out, and the
\* orchestrator does not throw.
C24_AmbiguousNameIsNotFound ==
    \A i \in DOMAIN frames :
       frames[i].op = "byBrand" /\ frames[i].token \in AmbiguousTokens =>
          /\ frames[i].pc \in {"lookup", "returned"}
          /\ frames[i].arg = NULL
          /\ frames[i].queries = <<LookupQuery>>
          /\ frames[i].pc = "returned" =>
                /\ frames[i].error = "brandError"
                /\ frames[i].result = <<EmptyResult(frames[i].page, frames[i].limit)>>
                /\ \A j \in DOMAIN frames :
                      /\ frames[j].token \in UnmatchedTokens
                      /\ frames[j].pc = "returned"
                      => /\ frames[j].result = frames[i].result
                         /\ frames[j].queries = frames[i].queries
                         /\ frames[j].error = frames[i].error

\* a token matching both brands and a token matching none have returned the
\* same empty envelope while the store holds products of both brands
C24_Witness ==
    /\ MappingReturned
    /\ \E p, q \in store : Row(p).brand_id # Row(q).brand_id
                           /\ Row(p).brand_id # NULL /\ Row(q).brand_id # NULL
    /\ \E i, j \in DOMAIN frames :
          /\ frames[i].token \in AmbiguousTokens
          /\ Cardinality(NameHits(frames[i].token)) = Cardinality(BrandsTable)
          /\ frames[j].token \in UnmatchedTokens
          /\ frames[i].pc = "returned" /\ frames[j].pc = "returned"
          /\ TheOutcome.value[frames[i].token] = EmptyResult(frames[i].page, frames[i].limit)
          /\ TheOutcome.value[frames[j].token] = TheOutcome.value[frames[i].token]

=============================================================================
